---- MODULE Spec2Model ----
(***************************************************************************)
(* A model of the plasma benchmarking scripts:                             *)
(*   dataset.py               the Dataset class and its three round trips  *)
(*   plasma_benchmarking.py   main(): one Dataset per file of "in/",       *)
(*                            warmup and timed calls, three report tables  *)
(*   plasma-benchmarking.py   main(): the older script with hard-coded     *)
(*                            files and free round-trip functions          *)
(* File names are sequences of one-character strings, so that split,       *)
(* replace and "in" are computed as Python computes them.  File contents   *)
(* are sequences of bytes.  The plasma store, the file system and pyarrow  *)
(* are the environment: the store hands out buffers whose memory is not    *)
(* initialised, refuses an object id that exists, and may refuse a create. *)
(***************************************************************************)
EXTENDS Integers, Sequences, FiniteSets, TLC

VARIABLES
    script,            \* which script runs: "dataset" or "legacy"
    argv1,             \* sys.argv[1], "" when absent
    in_files,          \* os.listdir("in") (dataset script)
    pc,                \* position in main()
    check_huge_files,  \* main's flag
    datasets,          \* main's list of Dataset objects
    idx,               \* index of the dataset (or legacy plan entry) in work
    phase,             \* round-trip variant being measured
    timer,             \* calls made by the two timeit runs of this variant
    store,             \* the plasma store
    disk,              \* output files written: path -> bytes
    callLog,           \* what the latest round-trip call did
    report,            \* the rich Tables being filled
    printed,           \* what console.print has shown
    measured,          \* per measured variant: calls made and objects stored
    outcome            \* "running", "ok", "help", "crashed_init", "crashed_call"

vars == <<script, argv1, in_files, pc, check_huge_files, datasets, idx, phase,
          timer, store, disk, callLog, report, printed, measured, outcome>>

(***************************************************************************)
(* Bounds.  REPS, WARMUPS and the literal number=100 of the warmup runs    *)
(* are 1000, 100 and 100 in plasma_benchmarking.py (lines 25, 26, 68); the *)
(* legacy script times 1000 calls (100 for huge files and huge streams).   *)
(* The loops are run here with the same structure and smaller counts.      *)
(***************************************************************************)
REPS == 4

WARMUPS == 2

WarmupNumber == 2

LegacyReps == 2

LegacyHugeReps == 1

MaxFiles == 2

(***************************************************************************)
(* Strings                                                                 *)
(***************************************************************************)
Dot == "."

S_in_slash == <<"i","n","/">>

S_huge == <<"h","u","g","e","_">>

S_out_dot == <<"_","o","u","t",".">>

S_in == <<"i","n">>

S_out == <<"o","u","t">>

S_csv == <<"c","s","v">>

S_json == <<"j","s","o","n">>

S_parquet == <<"p","a","r","q","u","e","t">>

\* s[i..] starts with sub
StartsAt(s, i, sub) ==
    /\ i + Len(sub) - 1 <= Len(s)
    /\ \A k \in 1..Len(sub) : s[i + k - 1] = sub[k]

\* Python: sub in s
Contains(s, sub) == \E i \in 1..(Len(s) + 1) : StartsAt(s, i, sub)

\* Python: s.split(sep) for a one-character sep
RECURSIVE SplitFrom(_, _, _, _)
SplitFrom(s, sep, i, cur) ==
    IF i > Len(s) THEN <<cur>>
    ELSE IF s[i] = sep THEN <<cur>> \o SplitFrom(s, sep, i + 1, <<>>)
    ELSE SplitFrom(s, sep, i + 1, Append(cur, s[i]))

Split(s, sep) == SplitFrom(s, sep, 1, <<>>)

\* Python: s.replace(old, new), left to right, occurrences not overlapping
RECURSIVE ReplaceFrom(_, _, _, _)
ReplaceFrom(s, old, new, i) ==
    IF i > Len(s) THEN <<>>
    ELSE IF StartsAt(s, i, old) THEN new \o ReplaceFrom(s, old, new, i + Len(old))
    ELSE <<s[i]>> \o ReplaceFrom(s, old, new, i + 1)

Replace(s, old, new) == ReplaceFrom(s, old, new, 1)

LowerToUpper ==
    ("c" :> "C") @@ ("s" :> "S") @@ ("v" :> "V") @@ ("j" :> "J") @@ ("o" :> "O")
    @@ ("n" :> "N") @@ ("p" :> "P") @@ ("a" :> "A") @@ ("r" :> "R")
    @@ ("q" :> "Q") @@ ("u" :> "U") @@ ("e" :> "E") @@ ("t" :> "T")
    @@ ("x" :> "X") @@ ("y" :> "Y") @@ ("z" :> "Z")

\* Python: s.upper()
Upper(s) == [i \in 1..Len(s) |-> IF s[i] \in DOMAIN LowerToUpper THEN LowerToUpper[s[i]] ELSE s[i]]

(***************************************************************************)
(* The input directory.  Every file has bytes and a format its bytes are   *)
(* in; a reader of another format fails on them.                           *)
(***************************************************************************)
N_test_csv == <<"t","e","s","t","_","d","a","t","a",".","c","s","v">>

N_test_json == <<"t","e","s","t","_","d","a","t","a",".","j","s","o","n">>

N_test_parquet == <<"t","e","s","t","_","d","a","t","a",".","p","a","r","q","u","e","t">>

N_huge_csv == S_huge \o N_test_csv

N_huge_json == S_huge \o N_test_json

N_huge_parquet == S_huge \o N_test_parquet

N_csv_xyz == <<"x",".","c","s","v",".","x","y","z">>

N_xyz == <<"y",".","x","y","z">>

N_noext == <<"n","o","e","x","t">>

\* the names os.listdir("in") may return
DirNames == {N_test_csv, N_huge_json, N_test_parquet, N_csv_xyz, N_xyz, N_noext}

\* the format of a file's bytes
FormatOf(path) ==
    CASE path \in {S_in_slash \o N_test_csv, S_in_slash \o N_huge_csv, S_in_slash \o N_csv_xyz} -> "csv"
      [] path \in {S_in_slash \o N_test_json, S_in_slash \o N_huge_json} -> "json"
      [] path \in {S_in_slash \o N_test_parquet, S_in_slash \o N_huge_parquet} -> "parquet"
      [] OTHER -> "text"

\* the bytes of a file (never 0, the byte of a fresh page)
ContentOf(path) ==
    CASE path = S_in_slash \o N_test_csv -> <<1, 2>>
      [] path = S_in_slash \o N_huge_csv -> <<1, 2, 1>>
      [] path = S_in_slash \o N_test_json -> <<2>>
      [] path = S_in_slash \o N_huge_json -> <<2, 1, 1>>
      [] path = S_in_slash \o N_test_parquet -> <<1>>
      [] path = S_in_slash \o N_huge_parquet -> <<1, 1>>
      [] path = S_in_slash \o N_csv_xyz -> <<2, 2>>
      [] OTHER -> <<1, 1, 2>>

\* all sequences over S of length n without repetition
RECURSIVE Listings(_, _)
Listings(S, n) ==
    IF n = 0 THEN {<<>>}
    ELSE LET shorter == Listings(S, n - 1)
         IN shorter \cup {Append(l, x) : l \in {m \in shorter : Len(m) = n - 1},
                                         x \in S}

NoRepeat(l) == \A i, j \in 1..Len(l) : i # j => l[i] # l[j]

(***************************************************************************)
(* pyarrow: tables and the IPC stream format                               *)
(***************************************************************************)
\* csv.read_csv / json.read_json / pq.read_table: the reader of format fmt
\* parses the bytes of a file of that format and fails on any other
ReaderAccepts(fmt, path) == FormatOf(path) = fmt

ReadTable(fmt, path) == [schema |-> fmt, data |-> ContentOf(path)]

\* RecordBatchStreamWriter.write_table: the schema message, then the data
IpcHeader == <<9>>

Serialize(table) == IpcHeader \o table.data

(***************************************************************************)
(* dataset.py: Dataset.__init__                                            *)
(***************************************************************************)
NoHandle == [state |-> "none", pos |-> 0]

TypeName(type) ==
    IF type = S_csv THEN "csv"
    ELSE IF type = S_json THEN "json"
    ELSE IF type = S_parquet THEN "parquet"
    ELSE "other"

\* line 20: filename.split(".")[1] raises IndexError without a dot
InitIndexError(filename) == Len(Split(filename, Dot)) < 2

DatasetType(filename) == Split(filename, Dot)[2]

\* lines 33-43: an unknown type leaves table None and .schema raises
\* AttributeError; a reader raises on bytes of another format
InitRaises(filename) ==
    \/ InitIndexError(filename)
    \/ TypeName(DatasetType(filename)) = "other"
    \/ ~ReaderAccepts(TypeName(DatasetType(filename)), filename)

Dataset(filename) ==
    LET type == DatasetType(filename)
        table == ReadTable(TypeName(type), filename)
    IN [ is_huge      |-> Contains(filename, S_huge),
         type         |-> type,
         can_use_file |-> (type = S_csv \/ type = S_json),
         filename     |-> filename,
         out_filename |-> Replace(Replace(filename, <<Dot>>, S_out_dot), S_in, S_out),
         file         |-> NoHandle,
         file_bytes   |-> Len(ContentOf(filename)),
         stream       |-> NoHandle,
         stream_bytes |-> Len(ContentOf(filename)),
         table        |-> table,
         table_bytes  |-> Len(Serialize(table)) ]

\* lines 101-106: __del__ closes the handles that were opened
CloseHandle(h) == IF h.state = "none" THEN h ELSE [h EXCEPT !.state = "closed"]

\* __del__ closing the file handle and leaving the stream open
DelFileOnly(d) == [d EXCEPT !.file = CloseHandle(d.file)]

Del(d) == [d EXCEPT !.file = CloseHandle(d.file), !.stream = CloseHandle(d.stream)]

(***************************************************************************)
(* The plasma store, as the client sees it                                 *)
(***************************************************************************)
InitStore == [created |-> 0, sealed |-> 0, payloads |-> {}]

Zeros(n) == [i \in 1..n |-> 0]

\* memory of a new object: fresh pages (zeros) or the bytes an earlier
\* object of that size left behind
Uninit(st, size) == {Zeros(size)} \cup {p \in st.payloads : Len(p) = size}

\* np.random.bytes(20): an id no object has, or (with probability 2^-160
\* per object) the id of an object of the store
random_obj_id(st) == {st.created + 1} \cup (IF st.created > 0 THEN {st.created} ELSE {})

Faults == {"none", "open_in", "create", "open_out"}

\* a call in progress: the store, the client calls made, the buffer
NewCall(st) == [store |-> st, ops |-> <<>>, buf |-> <<>>, back |-> <<>>, raised |-> FALSE,
                copied |-> 0]

\* client.create(id, size): PlasmaObjectExists for an id of the store,
\* PlasmaStoreFull when the store refuses
ClientCreate(c, id, size, refuse, junk) ==
    IF c.raised THEN c
    ELSE IF refuse \/ id \in 1..c.store.created
    THEN [c EXCEPT !.raised = TRUE, !.ops = Append(@, [op |-> "create", id |-> id, ok |-> FALSE])]
    ELSE [c EXCEPT !.store.created = @ + 1,
                   !.buf = junk,
                   !.ops = Append(@, [op |-> "create", id |-> id, ok |-> TRUE])]

\* copying data into the buffer from its start; an index past the end raises
BufferWrite(c, id, data) ==
    IF c.raised THEN c
    ELSE IF Len(data) > Len(c.buf)
    THEN [c EXCEPT !.raised = TRUE, !.ops = Append(@, [op |-> "write", id |-> id, ok |-> FALSE])]
    ELSE [c EXCEPT !.buf = [i \in 1..Len(c.buf) |-> IF i <= Len(data) THEN data[i] ELSE c.buf[i]],
                   !.copied = Len(data),
                   !.ops = Append(@, [op |-> "write", id |-> id, ok |-> TRUE])]

ClientSeal(c, id) ==
    IF c.raised THEN c
    ELSE [c EXCEPT !.store.sealed = @ + 1,
                   !.store.payloads = @ \cup {c.buf},
                   !.ops = Append(@, [op |-> "seal", id |-> id, ok |-> TRUE])]

ClientGetBuffers(c, id) ==
    IF c.raised THEN c
    ELSE [c EXCEPT !.back = c.buf,
                   !.ops = Append(@, [op |-> "get_buffers", id |-> id, ok |-> TRUE])]

Raise(c) == IF c.raised THEN c ELSE [c EXCEPT !.raised = TRUE]

(***************************************************************************)
(* dataset.py: the three round trips.  Each takes the Dataset, the store   *)
(* and the disk, and what the environment does during the call: fault      *)
(* (which call raises, if any), id (what np.random returns) and junk (the  *)
(* memory of the new buffer).  Each returns the Dataset, store and disk    *)
(* after the call and the call's log.                                      *)
(***************************************************************************)
CallResult(d, c, dk, variant, id, status) ==
    [ d |-> d, store |-> c.store, disk |-> dk,
      log |-> [ file |-> d.filename, out |-> d.out_filename, variant |-> variant,
                id |-> id, ops |-> c.ops, status |-> status,
                copied |-> c.copied, readback |-> Len(c.back) ] ]

\* file.read() / stream.readinto(buf): the bytes from the read position on
ReadFrom(path, pos, limit) ==
    LET all == ContentOf(path)
        last == IF pos + limit < Len(all) THEN pos + limit ELSE Len(all)
    IN SubSeq(all, pos + 1, last)

\* the open handle of a Dataset: opened on the first call, kept afterwards
OpenOnce(h) == IF h.state = "none" THEN [state |-> "open", pos |-> 0] ELSE h

\* lines 48-66
roundtrip_file(d, st, dk, fault, id, junk) ==
    IF ~d.can_use_file
    THEN CallResult(d, NewCall(st), dk, "file", 0, "returned")
    ELSE IF d.file.state = "none" /\ fault = "open_in"
    THEN CallResult(d, Raise(NewCall(st)), dk, "file", 0, "raised")
    ELSE
    LET file == OpenOnce(d.file)
        d1 == [d EXCEPT !.file = file]
        c1 == ClientCreate(NewCall(st), id, d.file_bytes, fault = "create", junk)
        data == ReadFrom(d.filename, file.pos, Len(ContentOf(d.filename)))
        d2 == IF c1.raised THEN d1 ELSE [d1 EXCEPT !.file.pos = file.pos + Len(data)]
        c2 == BufferWrite(c1, id, data)
        c3 == ClientSeal(c2, id)
        c4 == IF fault = "open_out" THEN Raise(c3) ELSE ClientGetBuffers(c3, id)
    IN CallResult(d2, c4,
                  IF c4.raised THEN dk ELSE (d.out_filename :> c4.back) @@ dk,
                  "file", id,
                  IF c4.raised THEN "raised" ELSE "returned")

\* lines 69-81
roundtrip_stream(d, st, dk, fault, id, junk) ==
    IF d.stream.state = "none" /\ fault = "open_in"
    THEN CallResult(d, Raise(NewCall(st)), dk, "stream", 0, "raised")
    ELSE
    LET stream == OpenOnce(d.stream)
        d1 == [d EXCEPT !.stream = stream]
        c1 == ClientCreate(NewCall(st), id, d.stream_bytes, fault = "create", junk)
        data == ReadFrom(d.filename, stream.pos, d.stream_bytes)
        d2 == IF c1.raised THEN d1 ELSE [d1 EXCEPT !.stream.pos = stream.pos + Len(data)]
        c2 == BufferWrite(c1, id, data)
        c3 == ClientSeal(c2, id)
        c4 == IF fault = "open_out" THEN Raise(c3) ELSE ClientGetBuffers(c3, id)
    IN CallResult(d2, c4,
                  IF c4.raised THEN dk ELSE (d.out_filename :> c4.back) @@ dk,
                  "stream", id,
                  IF c4.raised THEN "raised" ELSE "returned")

\* roundtrip_table reading the object back before it is sealed
roundtrip_table_read_before_seal(d, st, dk, fault, id, junk) ==
    LET c1 == ClientCreate(NewCall(st), id, d.table_bytes, fault = "create", junk)
        c2 == BufferWrite(c1, id, Serialize(d.table))
        c3 == ClientGetBuffers(c2, id)
        c4 == ClientSeal(c3, id)
    IN CallResult(d, c4, dk, "table", id, IF c4.raised THEN "raised" ELSE "returned")

\* lines 84-98
roundtrip_table(d, st, dk, fault, id, junk) ==
    LET c1 == ClientCreate(NewCall(st), id, d.table_bytes, fault = "create", junk)
        c2 == BufferWrite(c1, id, Serialize(d.table))
        c3 == ClientSeal(c2, id)
        c4 == ClientGetBuffers(c3, id)
    IN CallResult(d, c4, dk, "table", id, IF c4.raised THEN "raised" ELSE "returned")

(***************************************************************************)
(* plasma-benchmarking.py: the free round-trip functions.  They open the   *)
(* input inside the call, so every call reads the file from its start.     *)
(***************************************************************************)
OutFilename(filename) == Replace(Replace(filename, <<Dot>>, S_out_dot), S_in, S_out)

Source(filename) == [filename |-> filename, out_filename |-> OutFilename(filename)]

\* lines 26-34: client.put("testing"), client.get(id)
check_connection(st, dk, fault, id, junk) ==
    LET src == [filename |-> <<>>, out_filename |-> <<>>]
        c1 == ClientCreate(NewCall(st), id, 1, fault = "create", junk)
        c2 == BufferWrite(c1, id, <<7>>)
        c3 == ClientSeal(c2, id)
        c4 == ClientGetBuffers(c3, id)
    IN CallResult(src, c4, dk, "check", id, IF c4.raised THEN "raised" ELSE "returned")

\* lines 37-58
legacy_roundtrip_file(filename, st, dk, fault, id, junk) ==
    IF fault = "open_in"
    THEN CallResult(Source(filename), Raise(NewCall(st)), dk, "file", id, "raised")
    ELSE
    LET file_bytes == ReadFrom(filename, 0, Len(ContentOf(filename)))
        c1 == ClientCreate(NewCall(st), id, Len(file_bytes), fault = "create", junk)
        c2 == BufferWrite(c1, id, file_bytes)
        c3 == ClientSeal(c2, id)
        c4 == IF fault = "open_out" THEN Raise(c3) ELSE ClientGetBuffers(c3, id)
    IN CallResult(Source(filename), c4,
                  IF c4.raised THEN dk ELSE (OutFilename(filename) :> c4.back) @@ dk,
                  "file", id, IF c4.raised THEN "raised" ELSE "returned")

\* lines 61-83
roundtrip_file_stream(filename, st, dk, fault, id, junk) ==
    IF fault = "open_in"
    THEN CallResult(Source(filename), Raise(NewCall(st)), dk, "stream", id, "raised")
    ELSE
    LET size == Len(ContentOf(filename))
        c1 == ClientCreate(NewCall(st), id, size, fault = "create", junk)
        c2 == BufferWrite(c1, id, ReadFrom(filename, 0, size))
        c3 == ClientSeal(c2, id)
        c4 == IF fault = "open_out" THEN Raise(c3) ELSE ClientGetBuffers(c3, id)
    IN CallResult(Source(filename), c4,
                  IF c4.raised THEN dk ELSE (OutFilename(filename) :> c4.back) @@ dk,
                  "stream", id, IF c4.raised THEN "raised" ELSE "returned")

\* lines 86-114; filename names the file the table was read from
roundtrip_mem_table(filename, st, dk, fault, id, junk) ==
    LET table == ReadTable(FormatOf(filename), filename)
        data_size == Len(Serialize(table))
        c1 == ClientCreate(NewCall(st), id, data_size, fault = "create", junk)
        c2 == BufferWrite(c1, id, Serialize(table))
        c3 == ClientSeal(c2, id)
        c4 == ClientGetBuffers(c3, id)
    IN CallResult(Source(filename), c4, dk, "table", id,
                  IF c4.raised THEN "raised" ELSE "returned")

\* lines 172-230: what main does between connecting and printing.  The six
\* tables of lines 209-214 are read from files that do not change; the
\* table round trips are given the file each table was read from.
Timed(name, num, op, file, when) ==
    [kind |-> "time", name |-> name, num |-> num, op |-> op, file |-> file, when |-> when]

Header(title) ==
    [kind |-> "header", name |-> title, num |-> 0, op |-> "none", file |-> <<>>, when |-> "always"]

LegacyPlan ==
    << [kind |-> "client_row", name |-> "create client", num |-> 1, op |-> "none",
        file |-> <<>>, when |-> "always"],
       Timed("connection check", LegacyReps, "check", <<>>, "always"),
       Header("FILES"),
       Timed("csv", LegacyReps, "file", S_in_slash \o N_test_csv, "always"),
       Timed("json", LegacyReps, "file", S_in_slash \o N_test_json, "always"),
       Header("HUGE FILES"),
       Timed("csv", LegacyHugeReps, "file", S_in_slash \o N_huge_csv, "huge"),
       Timed("json", LegacyHugeReps, "file", S_in_slash \o N_huge_json, "huge"),
       [kind |-> "omitted", name |-> "omitted", num |-> 0, op |-> "none",
        file |-> <<>>, when |-> "no_huge"],
       Header("STREAMS"),
       Timed("csv", LegacyReps, "stream", S_in_slash \o N_test_csv, "always"),
       Timed("json", LegacyReps, "stream", S_in_slash \o N_test_json, "always"),
       Timed("parquet", LegacyReps, "stream", S_in_slash \o N_test_parquet, "always"),
       Header("HUGE STREAMS"),
       Timed("csv", LegacyHugeReps, "stream", S_in_slash \o N_huge_csv, "always"),
       Timed("json", LegacyHugeReps, "stream", S_in_slash \o N_huge_json, "always"),
       Timed("parquet", LegacyHugeReps, "stream", S_in_slash \o N_huge_parquet, "always"),
       Header("IN-MEMORY OBJS"),
       Timed("csv", LegacyReps, "table", S_in_slash \o N_test_csv, "always"),
       Timed("json", LegacyReps, "table", S_in_slash \o N_test_json, "always"),
       Timed("parquet", LegacyReps, "table", S_in_slash \o N_test_parquet, "always"),
       Header("HUGE IN-MEMORY OBJS"),
       Timed("csv", LegacyReps, "table", S_in_slash \o N_huge_csv, "always"),
       Timed("json", LegacyReps, "table", S_in_slash \o N_huge_json, "always"),
       Timed("parquet", LegacyReps, "table", S_in_slash \o N_huge_parquet, "always") >>

(***************************************************************************)
(* main() of both scripts                                                  *)
(***************************************************************************)
Args == {"", "-h", "--help", "-o", "--omit-huge"}

NoLog == [file |-> <<>>, out |-> <<>>, variant |-> "none", id |-> 0, ops |-> <<>>,
          status |-> "none", copied |-> 0, readback |-> 0]

NoTimer == [warm |-> 0, timed |-> 0, created0 |-> 0, sealed0 |-> 0]

NoReport == [files |-> <<>>, streams |-> <<>>, tables |-> <<>>, out |-> <<>>]

Init ==
    /\ script \in {"dataset", "legacy"}
    /\ argv1 \in Args
    /\ in_files \in IF script = "dataset"
                    THEN {l \in Listings(DirNames, MaxFiles) : NoRepeat(l)}
                    ELSE {<<>>}
    /\ pc = "args"
    /\ check_huge_files = TRUE
    /\ datasets = <<>>
    /\ idx = 0
    /\ phase = "none"
    /\ timer = NoTimer
    /\ store = InitStore
    /\ disk = <<>>
    /\ callLog = NoLog
    /\ report = NoReport
    /\ printed = <<>>
    /\ measured = <<>>
    /\ outcome = "running"

\* plasma_benchmarking.py lines 29-33, plasma-benchmarking.py lines 148-152
ParseArgs ==
    /\ pc = "args"
    /\ IF argv1 \in {"-h", "--help"}
       THEN /\ pc' = "exited"
            /\ outcome' = "help"
            /\ UNCHANGED check_huge_files
       ELSE /\ check_huge_files' = ~(argv1 \in {"-o", "--omit-huge"})
            /\ pc' = "connect"
            /\ UNCHANGED outcome
    /\ UNCHANGED <<script, argv1, in_files, datasets, idx, phase, timer, store, disk,
                   callLog, report, printed, measured>>

\* plasma.connect("/tmp/plasma"): raises when no store listens
Connect ==
    /\ pc = "connect"
    /\ \E reachable \in BOOLEAN :
         IF reachable
         THEN /\ pc' = IF script = "dataset" THEN "construct" ELSE "legacy"
              /\ idx' = IF script = "dataset" THEN 0 ELSE 1
              /\ UNCHANGED outcome
         ELSE /\ pc' = "crashed"
              /\ outcome' = "crashed_init"
              /\ UNCHANGED idx
    /\ UNCHANGED <<script, argv1, in_files, check_huge_files, datasets, phase, timer,
                   store, disk, callLog, report, printed, measured>>

\* plasma_benchmarking.py lines 47-53 and 56: one Dataset per listed file
Construct ==
    /\ pc = "construct"
    /\ IF Len(datasets) < Len(in_files)
       THEN LET file == S_in_slash \o in_files[Len(datasets) + 1]
            IN IF InitRaises(file)
               THEN /\ pc' = "crashed"
                    /\ outcome' = "crashed_init"
                    /\ UNCHANGED <<datasets, idx>>
               ELSE /\ datasets' = Append(datasets, Dataset(file))
                    /\ UNCHANGED <<pc, outcome, idx>>
       ELSE /\ pc' = "loop"
            /\ idx' = 1
            /\ UNCHANGED <<datasets, outcome>>
    /\ UNCHANGED <<script, argv1, in_files, check_huge_files, phase, timer, store, disk,
                   callLog, report, printed, measured>>

\* n = REPS, the warmup calls not taken off
TimedNumberIsReps == REPS

\* line 64: n = REPS - WARMUPS
TimedNumber == REPS - WARMUPS

\* lines 57-67: the head of the loop over the datasets
LoopHead ==
    /\ pc = "loop"
    /\ IF idx > Len(datasets)
       THEN /\ pc' = "print"
            /\ UNCHANGED <<idx, phase, timer>>
       ELSE IF ~check_huge_files /\ datasets[idx].is_huge
       THEN /\ idx' = idx + 1
            /\ UNCHANGED <<pc, phase, timer>>
       ELSE /\ pc' = "measure"
            /\ phase' = IF datasets[idx].can_use_file THEN "file" ELSE "stream"
            /\ timer' = [NoTimer EXCEPT !.created0 = store.created, !.sealed0 = store.sealed]
            /\ UNCHANGED idx
    /\ UNCHANGED <<script, argv1, in_files, check_huge_files, datasets, store, disk,
                   callLog, report, printed, measured, outcome>>

\* a handler around the body of the loop: the run goes on with the next source
PropagateCaught ==
    /\ pc' = IF script = "dataset" THEN "loop" ELSE "legacy"
    /\ idx' = idx + 1
    /\ timer' = NoTimer
    /\ UNCHANGED <<phase, outcome>>

\* an exception leaving a round trip: main has no handler, so it leaves main
Propagate ==
    /\ pc' = "crashed"
    /\ outcome' = "crashed_call"
    /\ UNCHANGED <<idx, phase, timer>>

\* the size of the buffer a round trip of a variant asks for
BufferSize(d, variant) ==
    IF variant = "file" THEN d.file_bytes
    ELSE IF variant = "stream" THEN d.stream_bytes
    ELSE d.table_bytes

RoundTrip(d, variant, st, dk, fault, id, junk) ==
    IF variant = "file" THEN roundtrip_file(d, st, dk, fault, id, junk)
    ELSE IF variant = "stream" THEN roundtrip_stream(d, st, dk, fault, id, junk)
    ELSE roundtrip_table(d, st, dk, fault, id, junk)

\* lines 68-69, 73-74, 78-79: one call made by timeit.timeit, first the
\* warmup run (number=100), then the timed run (number=n)
Call ==
    /\ pc = "measure"
    /\ timer.warm < WarmupNumber \/ timer.timed < TimedNumber
    /\ \E fault \in Faults, id \in random_obj_id(store),
          junk \in Uninit(store, BufferSize(datasets[idx], phase)) :
         LET r == RoundTrip(datasets[idx], phase, store, disk, fault, id, junk)
         IN /\ datasets' = [datasets EXCEPT ![idx] = r.d]
            /\ store' = r.store
            /\ disk' = r.disk
            /\ callLog' = r.log
            /\ IF r.log.status = "raised"
               THEN Propagate
               ELSE /\ timer' = IF timer.warm < WarmupNumber
                                THEN [timer EXCEPT !.warm = @ + 1]
                                ELSE [timer EXCEPT !.timed = @ + 1]
                    /\ UNCHANGED <<pc, idx, phase, outcome>>
    /\ UNCHANGED <<script, argv1, in_files, check_huge_files, report, printed, measured>>

\* lines 70-71, 75-76, 80-81: the row of the variant just measured (the
\* times are left out; the row keeps the numbers str() renders)
Row(d, bytes, n) == [file |-> d.filename, type |-> Upper(d.type), bytes |-> bytes, reps |-> n]

AddRow ==
    /\ pc = "measure"
    /\ timer.warm = WarmupNumber /\ timer.timed = TimedNumber
    /\ LET d == datasets[idx]
           n == TimedNumber
       IN /\ report' = IF phase = "file"
                       THEN [report EXCEPT !.files = Append(@, Row(d, d.file_bytes, n))]
                       ELSE IF phase = "stream"
                       THEN [report EXCEPT !.streams = Append(@, Row(d, d.stream_bytes, n))]
                       ELSE [report EXCEPT !.tables = Append(@, Row(d, d.table_bytes, n))]
          /\ measured' = Append(measured,
                                [file |-> d.filename, variant |-> phase,
                                 warm |-> timer.warm, timed |-> timer.timed,
                                 created |-> store.created - timer.created0,
                                 sealed |-> store.sealed - timer.sealed0,
                                 reps |-> n])
    /\ IF phase = "table"
       THEN /\ pc' = "loop"
            /\ idx' = idx + 1
            /\ UNCHANGED <<phase, timer>>
       ELSE /\ phase' = IF phase = "file" THEN "stream" ELSE "table"
            /\ timer' = [NoTimer EXCEPT !.created0 = store.created, !.sealed0 = store.sealed]
            /\ UNCHANGED <<pc, idx>>
    /\ UNCHANGED <<script, argv1, in_files, check_huge_files, datasets, store, disk,
                   callLog, printed, outcome>>

\* plasma-benchmarking.py lines 172-230: an entry of the plan that is not
\* a timed one, or a timed one the flag leaves out
LegacyApplies(e) ==
    \/ e.when = "always"
    \/ e.when = "huge" /\ check_huge_files
    \/ e.when = "no_huge" /\ ~check_huge_files

LegacyStep ==
    /\ pc = "legacy"
    /\ idx <= Len(LegacyPlan)
    /\ LET e == LegacyPlan[idx]
       IN /\ ~(e.kind = "time" /\ LegacyApplies(e))
          /\ report' = IF LegacyApplies(e)
                       THEN [report EXCEPT !.out = Append(@, [name |-> e.name, num |-> e.num])]
                       ELSE report
    /\ idx' = idx + 1
    /\ timer' = NoTimer
    /\ UNCHANGED <<script, argv1, in_files, pc, check_huge_files, datasets, phase, store,
                   disk, callLog, printed, measured, outcome>>

LegacyRoundTrip(e, st, dk, fault, id, junk) ==
    IF e.op = "check" THEN check_connection(st, dk, fault, id, junk)
    ELSE IF e.op = "file" THEN legacy_roundtrip_file(e.file, st, dk, fault, id, junk)
    ELSE IF e.op = "stream" THEN roundtrip_file_stream(e.file, st, dk, fault, id, junk)
    ELSE roundtrip_mem_table(e.file, st, dk, fault, id, junk)

LegacyBufferSize(e) ==
    IF e.op = "check" THEN 1
    ELSE IF e.op = "table" THEN Len(Serialize(ReadTable(FormatOf(e.file), e.file)))
    ELSE Len(ContentOf(e.file))

\* lines 117-126: time_and_output, one call of timeit's num calls
LegacyCall ==
    /\ pc = "legacy"
    /\ idx <= Len(LegacyPlan)
    /\ LegacyPlan[idx].kind = "time" /\ LegacyApplies(LegacyPlan[idx])
    /\ timer.timed < LegacyPlan[idx].num
    /\ \E fault \in Faults, id \in random_obj_id(store),
          junk \in Uninit(store, LegacyBufferSize(LegacyPlan[idx])) :
         LET r == LegacyRoundTrip(LegacyPlan[idx], store, disk, fault, id, junk)
         IN /\ store' = r.store
            /\ disk' = r.disk
            /\ callLog' = r.log
            /\ IF r.log.status = "raised"
               THEN Propagate
               ELSE /\ timer' = [timer EXCEPT !.timed = @ + 1]
                    /\ UNCHANGED <<pc, idx, phase, outcome>>
    /\ UNCHANGED <<script, argv1, in_files, check_huge_files, datasets, report, printed,
                   measured>>

LegacyAddRow ==
    /\ pc = "legacy"
    /\ idx <= Len(LegacyPlan)
    /\ LegacyPlan[idx].kind = "time" /\ LegacyApplies(LegacyPlan[idx])
    /\ timer.timed = LegacyPlan[idx].num
    /\ report' = [report EXCEPT !.out = Append(@, [name |-> LegacyPlan[idx].name,
                                                   num |-> LegacyPlan[idx].num])]
    /\ idx' = idx + 1
    /\ timer' = NoTimer
    /\ UNCHANGED <<script, argv1, in_files, pc, check_huge_files, datasets, phase, store,
                   disk, callLog, printed, measured, outcome>>

\* plasma_benchmarking.py lines 85-99, plasma-benchmarking.py lines 232-237
PrintReport ==
    /\ \/ pc = "print"
       \/ pc = "legacy" /\ idx > Len(LegacyPlan)
    /\ printed' = IF script = "dataset"
                  THEN <<report.files, report.streams, report.tables>>
                  ELSE <<report.out>>
    /\ pc' = "done"
    /\ outcome' = "ok"
    /\ UNCHANGED <<script, argv1, in_files, check_huge_files, datasets, idx, phase, timer,
                   store, disk, callLog, report, measured>>

\* the end of the process: main's locals are released, after the return
\* or while the uncaught exception ends the interpreter, and __del__ runs
\* for every Dataset that was built
Exit ==
    /\ pc \in {"done", "crashed"}
    /\ datasets' = [i \in 1..Len(datasets) |-> Del(datasets[i])]
    /\ pc' = "exited"
    /\ UNCHANGED <<script, argv1, in_files, check_huge_files, idx, phase, timer, store,
                   disk, callLog, report, printed, measured, outcome>>

Next ==
    \/ ParseArgs
    \/ Connect
    \/ Construct
    \/ LoopHead
    \/ Call
    \/ AddRow
    \/ LegacyStep
    \/ LegacyCall
    \/ LegacyAddRow
    \/ PrintReport
    \/ Exit

Spec == Init /\ [][Next]_vars

(***************************************************************************)
(* Properties                                                              *)
(***************************************************************************)
Called == callLog.variant \in {"file", "stream", "table"}

Returned == Called /\ callLog.status = "returned"

OmitHuge == argv1 \in {"-o", "--omit-huge"}

\* C1: when roundtrip_file returns, the output file holds exactly the
\* bytes of the input file, at every call of a sequence of calls.
C1_RawOutputEqualsInput ==
    (Returned /\ callLog.variant = "file")
        => /\ callLog.out \in DOMAIN disk
           /\ disk[callLog.out] = ContentOf(callLog.file)

\* what a raw round trip of a file, its handle freshly opened, leaves in
\* the output file
RawOutput(file) ==
    legacy_roundtrip_file(file, InitStore, <<>>, "none", 1,
                          Zeros(Len(ContentOf(file)))).disk[OutFilename(file)]

\* C2: when a stream round trip returns, the output file holds the bytes
\* the raw round trip leaves for that input, which are the input's bytes.
C2_StreamOutputEqualsRaw ==
    (Returned /\ callLog.variant = "stream")
        => /\ callLog.out \in DOMAIN disk
           /\ disk[callLog.out] = RawOutput(callLog.file)
           /\ disk[callLog.out] = ContentOf(callLog.file)

CanonicalOps == <<"create", "write", "seal", "get_buffers">>

\* C3: a round-trip call uses one object id, which no object of the store
\* had, and its client calls are create, the payload write, seal and
\* get_buffers in that order, each at most once: a call that raises stops
\* after a prefix of them, a call that returns has made all four.
C3_OneObjectPerCall ==
    LET ops == callLog.ops
    IN /\ Len(ops) <= Len(CanonicalOps)
       /\ \A i \in 1..Len(ops) :
            /\ ops[i].op = CanonicalOps[i]
            /\ ops[i].id = callLog.id
            /\ ~ops[i].ok => (i = Len(ops) /\ callLog.status = "raised")
       /\ callLog.status = "returned"
            => /\ Len(ops) = Len(CanonicalOps)
               /\ callLog.id = store.created
               /\ store.sealed = store.created

C3_Witness ==
    /\ script = "dataset"
    /\ Returned
    /\ callLog.variant = "table"
    /\ Len(callLog.ops) = 4
    /\ store.created > REPS

\* C4 as stated: the timed run makes REPS calls after the WARMUPS warmup
\* calls, so WARMUPS + REPS objects are stored per variant.
C4_TimedCallsAreReps ==
    \A k \in 1..Len(measured) :
        /\ measured[k].warm = WARMUPS
        /\ measured[k].timed = REPS
        /\ measured[k].created = WARMUPS + REPS
        /\ measured[k].sealed = WARMUPS + REPS
        /\ measured[k].reps = measured[k].timed

\* C4, amended: the warmup run makes WARMUPS calls, all of them before the
\* first timed call; the timed run makes REPS - WARMUPS calls; REPS objects
\* are created and sealed per variant; the row's repetition count is the
\* number of timed calls.
C4_TimedCallsAreRepsMinusWarmups ==
    /\ script = "dataset" => /\ timer.warm <= WARMUPS
                             /\ timer.timed <= REPS - WARMUPS
                             /\ timer.timed > 0 => timer.warm = WARMUPS
    /\ \A k \in 1..Len(measured) :
        /\ measured[k].warm = WARMUPS
        /\ measured[k].timed = REPS - WARMUPS
        /\ measured[k].created = REPS
        /\ measured[k].sealed = REPS
        /\ measured[k].reps = measured[k].timed
    /\ \A k \in 1..Len(report.files) : report.files[k].reps = REPS - WARMUPS
    /\ \A k \in 1..Len(report.streams) : report.streams[k].reps = REPS - WARMUPS
    /\ \A k \in 1..Len(report.tables) : report.tables[k].reps = REPS - WARMUPS

C4_Witness ==
    /\ Len(measured) >= 3
    /\ measured[3].variant = "table"
    /\ pc = "exited"
    /\ outcome = "ok"

\* the rows printed for a file
PrintedFor(file) ==
    \E t \in 1..Len(printed) : \E k \in 1..Len(printed[t]) : printed[t][k].file = file

\* C5 as stated: when a round trip of one source raises, every other source
\* of the run (not left out by the flag) is still measured and reported.
C5_OtherSourcesStillReported ==
    (script = "dataset" /\ pc = "exited" /\ callLog.status = "raised")
        => \A i \in 1..Len(datasets) :
              (datasets[i].filename # callLog.file
               /\ (check_huge_files \/ ~datasets[i].is_huge))
                  => PrintedFor(datasets[i].filename)

\* C5, amended: once a round trip has raised, the run is over: no further
\* round trip is made on any source (so no retry either), no row is added
\* and no table is printed.
C5_FailureEndsTheRun ==
    [][callLog.status = "raised"
         => /\ callLog' = callLog
            /\ store' = store
            /\ report' = report
            /\ printed' = <<>>
            /\ pc' = "exited"]_vars

C5_Witness ==
    /\ script = "dataset"
    /\ pc = "exited"
    /\ callLog.status = "raised"
    /\ Len(datasets) = 2
    /\ idx = 1
    /\ report.files # <<>>
    /\ printed = <<>>

\* the extension of a file name: what follows its last dot
Extension(filename) ==
    LET parts == Split(filename, Dot)
    IN IF Len(parts) < 2 THEN <<>> ELSE parts[Len(parts)]

\* C6: no round trip is ever made on a file whose extension is not csv,
\* json or parquet.
C6_UnsupportedNeverRoundTripped ==
    (script = "dataset" /\ Called) => Extension(callLog.file) \in {S_csv, S_json, S_parquet}

\* C7: a round trip that copied fewer or more bytes into the object than
\* it read back from the sealed buffer does not return as a success.
C7_SizeMismatchIsReported ==
    Returned => callLog.copied = callLog.readback

\* C8: started with -o or --omit-huge, neither script makes a round trip
\* of any variant on a source whose name contains "huge_".
C8_OmitHugeSkipsHugeSources ==
    (OmitHuge /\ Called) => ~Contains(callLog.file, S_huge)

\* C9: when the process has ended, no Dataset holds an open file handle or
\* an open stream handle, after a full run and after a failure.
C9_HandlesClosedAtExit ==
    pc = "exited"
        => \A i \in 1..Len(datasets) :
              datasets[i].file.state # "open" /\ datasets[i].stream.state # "open"

C9_Witness ==
    /\ pc = "exited"
    /\ outcome = "crashed_call"
    /\ Len(datasets) = 2
    /\ datasets[1].file.state = "closed"
    /\ datasets[1].stream.state = "closed"
    /\ datasets[2].stream.state = "closed"

\* C10: a round-trip call leaves every Dataset as it was.
C10_RoundTripLeavesDatasetUnchanged ==
    [][(script = "dataset" /\ pc = "measure" /\ callLog' # callLog)
          => datasets' = datasets]_vars

====
